---- MODULE Spec2Model ----
(***************************************************************************)
(* Podcast assembly engine of email_to_podcast_pipeline:                   *)
(* src/audio_processor.py, assemble_podcast and                            *)
(* _create_ffmpeg_metadata_file.                                           *)
(*                                                                         *)
(* One call of assemble_podcast is modelled as a state machine whose       *)
(* program counter follows the numbered steps of the function: the merge   *)
(* loop (one action per loop iteration), the empty check, the temporary    *)
(* export, the metadata file, the ffmpeg run and the final cleanup.        *)
(* Durations are whole milliseconds, as len(AudioSegment) reports them.    *)
(* The file system is assumed to honour os.remove on a file this call      *)
(* created itself.                                                         *)
(***************************************************************************)
EXTENDS Integers, Sequences, FiniteSets, TLC

VARIABLES
    segments,               \* argument: the ordered segment list
    silence_ms,             \* argument: silence between segments
    pc,                     \* position in assemble_podcast
    i,                      \* merge loop: 1-based index of the next segment
    combined_audio,         \* pydub timeline, as the sequence of clips appended
    chapters_for_metadata,  \* chapter list built by the merge loop
    current_position_ms,    \* position cursor
    temp_files_to_clean,    \* paths registered for cleanup, in order
    temp_files,             \* temporary files of this call present on disk
    out_dir_exists,         \* whether output_dir exists
    out_file,               \* state of the file at final_m4a_path
    metadata_file,          \* [CHAPTER] blocks written to the metadata file
    encoder_calls,          \* number of subprocess.run(ffmpeg) invocations
    steps,                  \* steps of the call entered so far, in order
    result,                 \* "pending", "None" or "ok" (path, chapters)
    exit_path,              \* which return statement ended the call
    io,                     \* what mkstemp/export, the metadata write and
                            \* subprocess.run did in this call
    previous_call,          \* what the call before this one returned
    job                     \* locals and effects of daily_email_podcast_job

vars == <<segments, silence_ms, pc, i, combined_audio, chapters_for_metadata,
          current_position_ms, temp_files_to_clean, temp_files, out_dir_exists,
          out_file, metadata_file, encoder_calls, steps, result, exit_path, io,
          previous_call, job>>

\* state outside the running assemble_podcast call
outer == <<previous_call, job>>

----------------------------------------------------------------------------
(* Bounds and input domains *)

MaxSegs == 3

\* longest segment list when two calls are compared
MaxCallSegs == 2

\* longest chapter list handed to the metadata encoder on its own
MaxChapters == 2

DEFAULT_SILENCE_MS == 750

SilenceChoices == {0, DEFAULT_SILENCE_MS}

\* One input segment: whether audio_path names an existing file, the declared
\* duration_ms (duration_is_int FALSE stands for None / not an int), whether
\* AudioSegment.from_file decodes the file, and the decoded length in ms.
Seg(e, isint, d, c, l) ==
    [exists |-> e, duration_is_int |-> isint, duration_ms |-> d,
     decodes |-> c, len |-> l]

SegmentKinds ==
    { Seg(FALSE, TRUE, 3000, FALSE, 0),     \* file missing
      Seg(TRUE, TRUE, 3000, FALSE, 0),      \* undecodable, declared duration valid
      Seg(TRUE, FALSE, 0, FALSE, 0),        \* undecodable, no declared duration
      Seg(TRUE, TRUE, 3000, TRUE, 0),       \* decodes to zero length, stale duration
      Seg(TRUE, TRUE, 0, TRUE, 0),          \* decodes to zero length, declared 0
      Seg(TRUE, TRUE, 3000, TRUE, 3000),    \* declared = actual
      Seg(TRUE, FALSE, 0, TRUE, 4000),      \* no declared duration, re-probed
      Seg(TRUE, TRUE, 3000, TRUE, 5000),    \* declared differs from actual
      Seg(TRUE, TRUE, 0, TRUE, 5000) }      \* declared 0, re-probed

\* segment.get('source', f'Segment {i+1}'): titles are sequences of characters.
SourceAt(k) ==
    IF k = 1 THEN <<"I", "n">>
    ELSE IF k = 2 THEN <<"a", "=", "b">>
    ELSE IF k = 3 THEN <<"O", "u", "t">>
    ELSE <<"Segment ", ToString(k)>>

WithSource(kind, k) ==
    [source |-> SourceAt(k), exists |-> kind.exists,
     duration_is_int |-> kind.duration_is_int, duration_ms |-> kind.duration_ms,
     decodes |-> kind.decodes, len |-> kind.len]

SegmentLists ==
    UNION { { [k \in 1..n |-> WithSource(f[k], k)] : f \in [1..n -> SegmentKinds] }
            : n \in 0..MaxSegs }

\* inputs of the runs in which one call follows another
CallSegmentKinds ==
    { Seg(FALSE, TRUE, 3000, FALSE, 0),
      Seg(TRUE, TRUE, 3000, FALSE, 0),
      Seg(TRUE, TRUE, 3000, TRUE, 0),
      Seg(TRUE, TRUE, 3000, TRUE, 3000),
      Seg(TRUE, TRUE, 3000, TRUE, 5000) }

CallSegmentLists ==
    UNION { { [k \in 1..n |-> WithSource(f[k], k)] : f \in [1..n -> CallSegmentKinds] }
            : n \in 0..MaxCallSegs }

\* output_dir before the call: absent, empty, or holding an earlier final file
OutputDirStates ==
    { <<FALSE, "absent">>, <<TRUE, "absent">>, <<TRUE, "preexisting">> }

----------------------------------------------------------------------------
(* Helpers *)

RECURSIVE SumMs(_)
SumMs(clips) ==
    IF clips = <<>> THEN 0 ELSE Head(clips).ms + SumMs(Tail(clips))

\* len(combined_audio)
TimelineLen == SumMs(combined_audio)

Range(s) == { s[k] : k \in DOMAIN s }

----------------------------------------------------------------------------
(* The merge loop, audio_processor.py lines 114-163 *)

\* line 122: not isinstance(duration_ms, int) or duration_ms <= 0
NeedsReprobe(seg) ==
    \/ ~seg.duration_is_int
    \/ seg.duration_ms <= 0

\* lines 125-132: the fallback load succeeds and yields a positive length
ReprobeOk(seg) ==
    /\ seg.decodes
    /\ seg.len > 0

\* How one loop iteration ends for a segment.
LoadOutcome(seg) ==
    IF ~seg.exists THEN "missing"                                 \* 119-121
    ELSE IF NeedsReprobe(seg) /\ ~ReprobeOk(seg) THEN "probe_failed"  \* 122-132
    ELSE IF ~seg.decodes THEN "decode_failed"                     \* 144-154
    ELSE "loaded"

\* Variant: silence committed for every i > 0, whatever the load outcome.
SilenceAlwaysCommitted(k, outcome) == k > 1

\* Variant: silence is added only once the segment has decoded.
SilenceOnlyWhenLoaded(k, outcome) == k > 1 /\ outcome = "loaded"

\* Variant: silence also committed before the first segment.
SilenceBeforeFirst(k, outcome) == outcome \in {"decode_failed", "loaded"}

\* lines 136-138: reached only when neither `continue` above was taken;
\* k is the 1-based index, so the code's i > 0 is k > 1.
SilenceDue(k, outcome) ==
    /\ k > 1
    /\ outcome \in {"decode_failed", "loaded"}

\* line 112: AudioSegment.silent(duration=silence_ms) if silence_ms > 0 else empty
SilenceClipMs(s) == IF s > 0 THEN s ELSE 0

\* Variant: the cursor advances by the declared duration when it is valid.
AppendedDeclaredMs(seg) ==
    IF seg.duration_is_int /\ seg.duration_ms > 0 THEN seg.duration_ms ELSE seg.len

\* line 147: current_position_ms += len(audio_segment)
AppendedMs(seg) == seg.len

\* Variant: the except blocks at 148-154 lack their `continue`.
RecordsChapterOnDecodeFailure(outcome) == outcome \in {"loaded", "decode_failed"}

\* lines 156-162 are reached only when the try block at 144-147 did not raise
RecordsChapter(outcome) == outcome = "loaded"

Chapter(title, start, end) ==
    [title |-> title, start_ms |-> start, end_ms |-> end]

Clip(kind, k, ms) == [kind |-> kind, seg |-> k, ms |-> ms]

\* Variant: the silence is appended but the cursor is not advanced for it.
PositionWithoutSilence(k, outcome) == current_position_ms

PositionAfterSilence(k, outcome) ==
    IF SilenceDue(k, outcome) THEN current_position_ms + silence_ms
    ELSE current_position_ms

AudioAfterSilence(k, outcome) ==
    IF SilenceDue(k, outcome)
    THEN Append(combined_audio, Clip("silence", k, SilenceClipMs(silence_ms)))
    ELSE combined_audio

----------------------------------------------------------------------------
(* Chapter metadata encoder, audio_processor.py lines 24-74 *)

\* str.replace(old, new) for a one-character old
Replace(title, old, new) ==
    [k \in DOMAIN title |-> IF title[k] = old THEN new ELSE title[k]]

\* Variant: only a chapter that ends before it starts is skipped.
ChapterRetainedWhenEmpty(chap) == ~(chap.end_ms < chap.start_ms)

\* line 56: a chapter is written unless end_ms <= start_ms
ChapterRetained(chap) == ~(chap.end_ms <= chap.start_ms)

\* Variant: the chain without its backslash replacement.
CleanTitleKeepsBackslash(title) ==
    Replace(Replace(Replace(Replace(title, "=", "-"), ";", ","), "#", "-"), "\n", " ")

\* line 61: the chain of str.replace calls, in the order they are applied
CleanTitle(title) ==
    Replace(Replace(Replace(Replace(Replace(title,
        "=", "-"), ";", ","), "#", "-"), "\\", "-"), "\n", " ")

\* lines 45-46 and 63-67: one [CHAPTER] block
ChapterBlock(chap) ==
    [TIMEBASE |-> <<1, 1000>>, START |-> chap.start_ms, END |-> chap.end_ms,
     title |-> CleanTitle(chap.title)]

\* lines 51-67: the [CHAPTER] blocks written, in order
RECURSIVE MetadataBlocks(_)
MetadataBlocks(chapters) ==
    IF chapters = <<>> THEN <<>>
    ELSE IF ChapterRetained(Head(chapters))
         THEN <<ChapterBlock(Head(chapters))>> \o MetadataBlocks(Tail(chapters))
         ELSE MetadataBlocks(Tail(chapters))

----------------------------------------------------------------------------
(* Cleanup of temporary files *)

\* Variant: a handler that returns without the removal loop.
NoCleanup(paths, present) == present

\* Variant: a handler that removes only the most recently registered file.
CleanupLastOnly(paths, present) ==
    IF paths = <<>> THEN present ELSE present \ {paths[Len(paths)]}

\* for f_path in temp_files_to_clean: os.remove(f_path)
RemoveFiles(paths, present) == present \ Range(paths)

CleanupOnExportFailure(paths, present) == RemoveFiles(paths, present)     \* 181-183
CleanupOnMetadataFailure(paths, present) == RemoveFiles(paths, present)   \* 196-198
CleanupOnToolMissing(paths, present) == RemoveFiles(paths, present)       \* 237-239
CleanupOnTranscodeError(paths, present) == RemoveFiles(paths, present)    \* 244-246
CleanupOnSuccess(paths, present) == RemoveFiles(paths, present)           \* 255-260

\* Variant: the handler leaves the final path alone.
FinalKept(f) == f

\* lines 248-250: if os.path.exists(final_m4a_path): os.remove(final_m4a_path)
FinalAfterTranscodeError(f) == "absent"

\* Variant: text on stderr is treated like a failed run.
EncoderFailedOnStderr(o) == o \in {"nonzero", "zero_stderr"}

\* line 225: result.returncode != 0
EncoderFailed(o) == o = "nonzero"

\* Variant: the return value of _create_ffmpeg_metadata_file is ignored.
MetadataFailsOnlyOnMkstemp(o) == o = "mkstemp_fails"

\* lines 188-192: mkstemp raises, or _create_ffmpeg_metadata_file returns False
MetadataStepFails(o) == o \in {"mkstemp_fails", "write_fails"}

\* Variant: each failing return reports its own kind.
TypedFailure(kind) == kind

\* lines 98, 168, 184, 199, 240, 251: every failing exit is `return None`
FailureResult(kind) == "None"

\* Variant: the newest chapter is put first.
PrependChapter(chapters, chap) == <<chap>> \o chapters

\* line 158: chapters_for_metadata.append(...)
AddChapter(chapters, chap) == Append(chapters, chap)

NoIo == [export |-> "none", metadata |-> "none", encoder |-> "none"]

NoPreviousCall ==
    [made |-> FALSE, same_arguments |-> FALSE, result |-> "pending",
     exit_path |-> "running", chapters |-> <<>>]

\* function_app.py lines 78-86: the locals of a job run before its try block,
\* with what the run has done outside itself (notifications, blobs, temporary
\* directories on disk); pc "idle" when assemble_podcast runs without the job
NoJob ==
    [pc |-> "idle", target_configured |-> FALSE, gmail_service |-> FALSE,
     messages |-> 0, email_contents |-> 0, summaries |-> 0,
     audio_segments |-> <<>>, temp_tts_dir |-> "None",
     tts_dir_exists |-> FALSE,
     output_dir_for_final_audio |-> "None", podcast_url |-> "None",
     raised |-> "none", steps |-> <<>>, notifications |-> <<>>,
     uploaded |-> {}, called |-> <<>>,
     tts |-> [available |-> FALSE, outcomes |-> <<>>]]

\* Variant: the cursor keeps the value the previous call left in it.
PositionCarriedOver(carried) == carried

\* line 107: current_position_ms = 0 at the start of every call
PositionAtEntry(carried) == 0

----------------------------------------------------------------------------
(* State machine of one assemble_podcast call *)

\* lines 105-108 and the state of a call that has not run yet
Entry ==
    /\ pc = "start"
    /\ i = 1
    /\ combined_audio = <<>>
    /\ chapters_for_metadata = <<>>
    /\ current_position_ms = PositionAtEntry(0)
    /\ temp_files_to_clean = <<>>
    /\ temp_files = {}
    /\ metadata_file = <<>>
    /\ encoder_calls = 0
    /\ steps = <<>>
    /\ result = "pending"
    /\ exit_path = "running"
    /\ io = NoIo

Init ==
    /\ segments \in SegmentLists
    /\ silence_ms \in SilenceChoices
    /\ \E d \in OutputDirStates :
          /\ out_dir_exists = d[1]
          /\ out_file = d[2]
    /\ Entry
    /\ previous_call = NoPreviousCall
    /\ job = NoJob

Fail(kind) ==
    /\ pc' = "done"
    /\ result' = FailureResult(kind)
    /\ exit_path' = kind

Return(r, path) ==
    /\ pc' = "done"
    /\ result' = r
    /\ exit_path' = path

\* Variant: os.makedirs is called before the list is looked at.
DirCreatedFirst(d) == TRUE

\* lines 96-98 return before os.makedirs at line 103: output_dir stays as it was
DirAfterEmptyInput(d) == d

\* lines 96-112
Start ==
    /\ pc = "start"
    /\ IF segments = <<>>
       THEN /\ Fail("empty_input")
            /\ out_dir_exists' = DirAfterEmptyInput(out_dir_exists)
            /\ UNCHANGED steps
       ELSE /\ out_dir_exists' = TRUE
            /\ pc' = "merge"
            /\ steps' = Append(steps, "merge")
            /\ UNCHANGED <<result, exit_path>>
    /\ UNCHANGED <<segments, silence_ms, i, combined_audio, chapters_for_metadata,
                   current_position_ms, temp_files_to_clean, temp_files, out_file,
                   metadata_file, encoder_calls, io>>
    /\ UNCHANGED outer

\* lines 114-163, one iteration
MergeSegment ==
    /\ pc = "merge"
    /\ i <= Len(segments)
    /\ LET seg == segments[i]
           outcome == LoadOutcome(seg)
           start == PositionAfterSilence(i, outcome)
           audio == AudioAfterSilence(i, outcome)
       IN  /\ combined_audio' =
                 IF outcome = "loaded"
                 THEN Append(audio, Clip("audio", i, seg.len))
                 ELSE audio
           /\ current_position_ms' =
                 IF outcome = "loaded" THEN start + AppendedMs(seg) ELSE start
           /\ chapters_for_metadata' =
                 IF RecordsChapter(outcome)
                 THEN AddChapter(chapters_for_metadata,
                                 Chapter(seg.source, start, current_position_ms'))
                 ELSE chapters_for_metadata
    /\ i' = i + 1
    /\ UNCHANGED <<segments, silence_ms, pc, temp_files_to_clean, temp_files,
                   out_dir_exists, out_file, metadata_file, encoder_calls, steps,
                   result, exit_path, io>>
    /\ UNCHANGED outer

\* lines 166-168
MergeDone ==
    /\ pc = "merge"
    /\ i > Len(segments)
    /\ IF TimelineLen = 0
       THEN Fail("empty_audio")
       ELSE /\ pc' = "export"
            /\ UNCHANGED <<result, exit_path>>
    /\ UNCHANGED <<segments, silence_ms, i, combined_audio, chapters_for_metadata,
                   current_position_ms, temp_files_to_clean, temp_files,
                   out_dir_exists, out_file, metadata_file, encoder_calls, steps, io>>
    /\ UNCHANGED outer

\* lines 172-184
Export ==
    /\ pc = "export"
    /\ steps' = Append(steps, "export")
    /\ \E o \in {"ok", "mkstemp_fails", "export_fails"} :
          LET registered == IF o = "mkstemp_fails" THEN temp_files_to_clean
                            ELSE Append(temp_files_to_clean, "concat")
              created == IF o = "mkstemp_fails" THEN temp_files
                         ELSE temp_files \cup {"concat"}
          IN  /\ temp_files_to_clean' = registered
              /\ io' = [io EXCEPT !.export = o]
              /\ IF o = "ok"
                 THEN /\ temp_files' = created
                      /\ pc' = "metadata"
                      /\ UNCHANGED <<result, exit_path>>
                 ELSE /\ temp_files' = CleanupOnExportFailure(registered, created)
                      /\ Fail("export_failed")
    /\ UNCHANGED <<segments, silence_ms, i, combined_audio, chapters_for_metadata,
                   current_position_ms, out_dir_exists, out_file, metadata_file,
                   encoder_calls>>
    /\ UNCHANGED outer

\* lines 187-199
Metadata ==
    /\ pc = "metadata"
    /\ steps' = Append(steps, "metadata")
    /\ \E o \in {"ok", "mkstemp_fails", "write_fails"} :
          LET registered == IF o = "mkstemp_fails" THEN temp_files_to_clean
                            ELSE Append(temp_files_to_clean, "metadata")
              created == IF o = "mkstemp_fails" THEN temp_files
                         ELSE temp_files \cup {"metadata"}
          IN  /\ temp_files_to_clean' = registered
              /\ io' = [io EXCEPT !.metadata = o]
              /\ metadata_file' = IF o = "ok"
                                  THEN MetadataBlocks(chapters_for_metadata)
                                  ELSE metadata_file
              /\ IF MetadataStepFails(o)
                 THEN /\ temp_files' = CleanupOnMetadataFailure(registered, created)
                      /\ Fail("metadata_failed")
                 ELSE /\ temp_files' = created
                      /\ pc' = "transcode"
                      /\ UNCHANGED <<result, exit_path>>
    /\ UNCHANGED <<segments, silence_ms, i, combined_audio, chapters_for_metadata,
                   current_position_ms, out_dir_exists, out_file, encoder_calls>>
    /\ UNCHANGED outer

\* lines 221-251. "not_found": subprocess.run raises FileNotFoundError;
\* "error": it raises another exception; "nonzero": ffmpeg ran and failed,
\* leaving the output path untouched or partially written; "zero" and
\* "zero_stderr": ffmpeg exited 0, without or with text on stderr.
Transcode ==
    /\ pc = "transcode"
    /\ steps' = Append(steps, "transcode")
    /\ encoder_calls' = encoder_calls + 1
    /\ \E o \in {"not_found", "error", "nonzero", "zero", "zero_stderr"} :
          /\ io' = [io EXCEPT !.encoder = o]
          /\ \/ /\ o = "not_found"
                /\ temp_files' = CleanupOnToolMissing(temp_files_to_clean, temp_files)
                /\ out_file' = out_file
                /\ Fail("tool_missing")
             \/ /\ o = "error"
                /\ temp_files' = CleanupOnTranscodeError(temp_files_to_clean, temp_files)
                /\ out_file' = FinalAfterTranscodeError(out_file)
                /\ Fail("transcode_failed")
             \/ /\ o \in {"nonzero", "zero", "zero_stderr"}
                /\ \E written \in (IF o = "nonzero" THEN {out_file, "partial"}
                                   ELSE {"complete"}) :
                      IF EncoderFailed(o)
                      THEN /\ temp_files' =
                                CleanupOnTranscodeError(temp_files_to_clean, temp_files)
                           /\ out_file' = FinalAfterTranscodeError(written)
                           /\ Fail("transcode_failed")
                      ELSE /\ out_file' = written
                           /\ pc' = "cleanup"
                           /\ UNCHANGED <<temp_files, result, exit_path>>
    /\ UNCHANGED <<segments, silence_ms, i, combined_audio, chapters_for_metadata,
                   current_position_ms, temp_files_to_clean, out_dir_exists,
                   metadata_file>>
    /\ UNCHANGED outer

\* lines 254-263
Cleanup ==
    /\ pc = "cleanup"
    /\ steps' = Append(steps, "cleanup")
    /\ temp_files' = CleanupOnSuccess(temp_files_to_clean, temp_files)
    /\ Return("ok", "success")
    /\ UNCHANGED <<segments, silence_ms, i, combined_audio, chapters_for_metadata,
                   current_position_ms, temp_files_to_clean, out_dir_exists, out_file,
                   metadata_file, encoder_calls, io>>
    /\ UNCHANGED outer

Next ==
    \/ Start
    \/ MergeSegment
    \/ MergeDone
    \/ Export
    \/ Metadata
    \/ Transcode
    \/ Cleanup

Spec == Init /\ [][Next]_vars

----------------------------------------------------------------------------
(* _create_ffmpeg_metadata_file on its own, lines 24-74, for any chapter   *)
(* list a caller may hand it.                                              *)

TitleChoices ==
    { <<"a">>, <<"=", ";", "b">>, <<"#", "\\", "\n">>, <<"x", "/", "\r">> }

ChapterChoices ==
    { Chapter(t, st, en) : t \in TitleChoices, st \in {0, 1000}, en \in {0, 1000, 2000} }

ChapterLists ==
    UNION { [1..n -> ChapterChoices] : n \in 0..MaxChapters }

Prefixes(blocks) == { SubSeq(blocks, 1, n) : n \in 0..Len(blocks) }

InitEncoder ==
    /\ chapters_for_metadata \in ChapterLists
    /\ pc = "encode"
    /\ segments = <<>>
    /\ silence_ms = DEFAULT_SILENCE_MS
    /\ out_dir_exists = TRUE
    /\ out_file = "absent"
    /\ i = 1
    /\ combined_audio = <<>>
    /\ current_position_ms = 0
    /\ temp_files_to_clean = <<"concat", "metadata">>
    /\ temp_files = {"concat", "metadata"}
    /\ metadata_file = <<>>
    /\ encoder_calls = 0
    /\ steps = <<"merge", "export">>
    /\ result = "pending"
    /\ exit_path = "running"
    /\ io = [NoIo EXCEPT !.export = "ok"]
    /\ previous_call = NoPreviousCall
    /\ job = NoJob

\* lines 35-74: returns True after writing every retained chapter, False
\* when open or a write raises (some leading blocks may be on disk by then)
CreateFfmpegMetadataFile ==
    /\ pc = "encode"
    /\ pc' = "encoded"
    /\ \E o \in {"ok", "write_fails"} :
          /\ io' = [io EXCEPT !.metadata = o]
          /\ IF o = "ok"
             THEN /\ metadata_file' = MetadataBlocks(chapters_for_metadata)
                  /\ result' = "True"
             ELSE /\ metadata_file' \in Prefixes(MetadataBlocks(chapters_for_metadata))
                  /\ result' = "False"
    /\ UNCHANGED <<segments, silence_ms, i, combined_audio, chapters_for_metadata,
                   current_position_ms, temp_files_to_clean, temp_files,
                   out_dir_exists, out_file, encoder_calls, steps, exit_path,
                   previous_call, job>>

NextEncoder == CreateFfmpegMetadataFile

SpecEncoder == InitEncoder /\ [][NextEncoder]_vars

----------------------------------------------------------------------------
(* Two calls in a row: the job is triggered again (function_app.py,        *)
(* schedule at lines 59-63, call at lines 167-171), with the same          *)
(* arguments or with new ones.                                             *)

InitCalls ==
    /\ segments \in CallSegmentLists
    /\ silence_ms \in SilenceChoices
    /\ out_dir_exists = TRUE
    /\ out_file = "absent"
    /\ Entry
    /\ previous_call = NoPreviousCall
    /\ job = NoJob

NextCall ==
    /\ pc = "done"
    /\ ~previous_call.made
    /\ \E same \in BOOLEAN :
          /\ previous_call' =
                [made |-> TRUE, same_arguments |-> same, result |-> result,
                 exit_path |-> exit_path,
                 chapters |-> IF same THEN chapters_for_metadata ELSE <<>>]
          /\ IF same
             THEN UNCHANGED <<segments, silence_ms>>
             ELSE /\ segments' \in CallSegmentLists
                  /\ silence_ms' \in SilenceChoices
    /\ out_file' = IF out_file = "complete" THEN "preexisting" ELSE out_file
    /\ pc' = "start"
    /\ i' = 1
    /\ combined_audio' = <<>>
    /\ chapters_for_metadata' = <<>>
    /\ current_position_ms' = PositionAtEntry(current_position_ms)
    /\ temp_files_to_clean' = <<>>
    /\ metadata_file' = <<>>
    /\ encoder_calls' = 0
    /\ steps' = <<>>
    /\ result' = "pending"
    /\ exit_path' = "running"
    /\ io' = NoIo
    /\ UNCHANGED <<temp_files, out_dir_exists, job>>

NextCalls ==
    \/ Next
    \/ NextCall

SpecCalls == InitCalls /\ [][NextCalls]_vars

----------------------------------------------------------------------------
(* The merge loop run on two segment lists that differ only in the         *)
(* declared duration_ms of segments whose file exists and decodes: the     *)
(* loop of lines 114-168 is run on one list, then on the other.            *)

\* longest segment list of the compared runs
MaxDeclaredSegs == 2

DeclaredKinds ==
    { Seg(FALSE, TRUE, 3000, FALSE, 0),     \* file missing
      Seg(TRUE, TRUE, 3000, FALSE, 0),      \* undecodable
      Seg(TRUE, TRUE, 3000, TRUE, 3000),    \* declared = actual
      Seg(TRUE, TRUE, 5000, TRUE, 3000),    \* declared positive, not actual
      Seg(TRUE, TRUE, 0, TRUE, 3000),       \* declared 0
      Seg(TRUE, FALSE, 0, TRUE, 3000),      \* declared absent
      Seg(TRUE, TRUE, 3000, TRUE, 0),       \* zero length, declared positive
      Seg(TRUE, TRUE, 0, TRUE, 0) }         \* zero length, declared 0

DeclaredLists ==
    UNION { { [k \in 1..n |-> WithSource(f[k], k)] : f \in [1..n -> DeclaredKinds] }
            : n \in 0..MaxDeclaredSegs }

SameButDeclared(a, b) ==
    /\ a.source = b.source
    /\ a.exists = b.exists
    /\ a.decodes = b.decodes
    /\ a.len = b.len
    /\ (a.duration_is_int # b.duration_is_int \/ a.duration_ms # b.duration_ms)
          => (a.exists /\ a.decodes)

DiffersOnlyInDeclared(s1, s2) ==
    /\ Len(s1) = Len(s2)
    /\ \A k \in DOMAIN s1 : SameButDeclared(s1[k], s2[k])

\* previous_call holds the list still to be run in `other`, then what the
\* first run produced
InitDeclared ==
    /\ segments \in DeclaredLists
    /\ silence_ms \in SilenceChoices
    /\ out_dir_exists = TRUE
    /\ out_file = "absent"
    /\ Entry
    /\ \E other \in DeclaredLists :
          /\ DiffersOnlyInDeclared(segments, other)
          /\ previous_call =
                [made |-> FALSE, same_arguments |-> FALSE, result |-> "pending",
                 exit_path |-> "running", chapters |-> <<>>, timeline_ms |-> 0,
                 other |-> other]
    /\ job = NoJob

\* the loop has ended on the first list (line 166 reached): keep what it
\* produced and enter the function again with the other list
RunOther ==
    /\ pc \in {"export", "done"}
    /\ ~previous_call.made
    /\ previous_call' =
          [previous_call EXCEPT !.made = TRUE, !.result = result,
                                !.exit_path = exit_path,
                                !.chapters = chapters_for_metadata,
                                !.timeline_ms = TimelineLen,
                                !.other = segments]
    /\ segments' = previous_call.other
    /\ pc' = "start"
    /\ i' = 1
    /\ combined_audio' = <<>>
    /\ chapters_for_metadata' = <<>>
    /\ current_position_ms' = PositionAtEntry(current_position_ms)
    /\ steps' = <<>>
    /\ result' = "pending"
    /\ exit_path' = "running"
    /\ UNCHANGED <<silence_ms, temp_files_to_clean, temp_files, out_dir_exists,
                   out_file, metadata_file, encoder_calls, io, job>>

NextDeclared ==
    \/ Start
    \/ MergeSegment
    \/ MergeDone
    \/ RunOther

SpecDeclared == InitDeclared /\ [][NextDeclared]_vars

----------------------------------------------------------------------------
(* One run of daily_email_podcast_job, function_app.py lines 66-286.       *)
(* The collaborators (Gmail, the summarizer, the speech synthesizer) are   *)
(* modelled at their return values; assemble_podcast runs as the actions   *)
(* above between JobAssemble and JobAssembled.                             *)

\* most messages find_recent_emails returns in one run
MaxMessages == 2

\* tts_processor.py lines 62-134, generate_speech_segment for one text:
\* the API call fails (the partial file is removed), the duration probe
\* fails (the file stays, lines 113-117), or a file of some length is made
TtsOutcomes == {"api_failed", "probe_failed", "silent", "spoken"}

\* lines 117-119: a (path, duration) tuple is returned
TtsProduced(o) == o \in {"silent", "spoken"}

\* lines 113-117 return before the removal at lines 128-132
TtsLeavesFile(o) == o # "api_failed"

\* tts_processor.py lines 46-59: len(audio) of the file just written
TtsDurationMs(o) == IF o = "spoken" THEN 2000 ELSE 0

\* tts_processor.py lines 174, 203, 226: 'Intro', the summary's source, 'Outro'
TtsSource(k, n) ==
    IF k = 1 THEN <<"I", "n", "t", "r", "o">>
    ELSE IF k = n + 2 THEN <<"O", "u", "t", "r", "o">>
    ELSE <<"s", ToString(k - 1)>>

\* the segment dictionary appended for attempt k of n + 2, as assemble_podcast
\* will find it: the file exists and decodes to the probed length
TtsSegment(k, n, o) ==
    [source |-> TtsSource(k, n), exists |-> TRUE, duration_is_int |-> TRUE,
     duration_ms |-> TtsDurationMs(o), decodes |-> TRUE, len |-> TtsDurationMs(o)]

\* Variant: an entry is appended for every attempt, failed or not.
TtsSegmentsKeepingFailed(outs, n) ==
    [k \in 1..(n + 2) |-> TtsSegment(k, n, outs[k])]

\* tts_processor.py lines 163-237: all_segments_info after Intro, the
\* summaries in order and Outro, failed attempts left out
TtsSegments(outs, n) ==
    LET attempts == [k \in 1..(n + 2) |-> [k |-> k, o |-> outs[k]]]
        kept == SelectSeq(attempts, LAMBDA a : TtsProduced(a.o))
    IN  [j \in 1..Len(kept) |-> TtsSegment(kept[j].k, n, kept[j].o)]

\* function_app.py lines 182-197: the placeholder builds a URL and calls
\* nothing; storage_client.upload_blob_and_get_sas_url is never invoked
BlobsAfterUploadStep(blobs, url) == blobs

\* a collaborator is invoked: the run's record of its calls grows
Called(j, name) == [j EXCEPT !.called = Append(@, name)]

\* raise inside the try block: control moves to the matching except clause
Raised(j, kind) == [j EXCEPT !.pc = "except", !.raised = kind]

Raise(kind) == job' = Raised(job, kind)

\* Variant: the emptiness checks are missing.
HasContentAlways(n) == TRUE

\* lines 100 and 125: `if not messages`, `if not email_contents`
HasContent(n) == n > 0

\* Variant: only the target address is checked before the failure mail.
CanNotifyWithoutService(service, target) == target

\* lines 227 and 244: if gmail_service and config.TARGET_EMAIL_ADDRESS
CanNotifyFailure(service, target) == service /\ target

\* lines 261-263: rmtree only if temp_tts_dir is set and is a directory
TtsDirAfterCleanup(dir, exists) == IF dir # "None" THEN FALSE ELSE exists

\* tts_processor.py lines 153-161: no client or no temporary directory, so
\* nothing is attempted
TtsUnavailable == [available |-> FALSE, outcomes |-> <<>>]

\* the variables of the assemble_podcast call, while the job is elsewhere
call == <<segments, silence_ms, pc, i, combined_audio, chapters_for_metadata,
          current_position_ms, temp_files_to_clean, temp_files, out_dir_exists,
          out_file, metadata_file, encoder_calls, steps, result, exit_path, io>>

InitJob ==
    /\ segments = <<>>
    /\ silence_ms = DEFAULT_SILENCE_MS
    /\ pc = "idle"
    /\ i = 1
    /\ combined_audio = <<>>
    /\ chapters_for_metadata = <<>>
    /\ current_position_ms = 0
    /\ temp_files_to_clean = <<>>
    /\ temp_files = {}
    /\ out_dir_exists = FALSE
    /\ out_file = "absent"
    /\ metadata_file = <<>>
    /\ encoder_calls = 0
    /\ steps = <<>>
    /\ result = "pending"
    /\ exit_path = "running"
    /\ io = NoIo
    /\ previous_call = NoPreviousCall
    /\ \E t \in BOOLEAN :
          job = [NoJob EXCEPT !.pc = "gmail", !.target_configured = t]

\* lines 89-94; email_client.py lines 27-73 return a service or raise
JobGmail ==
    /\ job.pc = "gmail"
    /\ \E o \in {"service", "ConnectionError", "Exception"} :
          IF o = "service"
          THEN job' = [Called(job, "_get_gmail_service") EXCEPT
                          !.pc = "find", !.gmail_service = TRUE]
          ELSE job' = Raised(Called(job, "_get_gmail_service"), o)
    /\ UNCHANGED <<call, previous_call>>

\* lines 96-105
JobFind ==
    /\ job.pc = "find"
    /\ \E m \in 0..MaxMessages :
          IF HasContent(m)
          THEN job' = [Called(job, "find_recent_emails") EXCEPT
                          !.pc = "parse", !.messages = m]
          ELSE job' = [Called(job, "find_recent_emails") EXCEPT !.pc = "finally"]
    /\ UNCHANGED <<call, previous_call>>

\* lines 107-131: some of the messages yield usable text
JobParse ==
    /\ job.pc = "parse"
    /\ \/ \E u \in 0..job.messages :
             IF HasContent(u)
             THEN job' = [Called(job, "get_email_details") EXCEPT
                             !.pc = "summarize", !.email_contents = u,
                             !.steps = Append(@, "fetch")]
             ELSE job' = [Called(job, "get_email_details") EXCEPT !.pc = "finally"]
       \/ job' = Raised(Called(job, "get_email_details"), "Exception")
    /\ UNCHANGED <<call, previous_call>>

\* lines 133-145
JobSummarize ==
    /\ job.pc = "summarize"
    /\ \/ \E n \in 0..job.email_contents :
             IF n = 0
             THEN job' = Raised(Called(job, "summarize_all"), "ValueError")
             ELSE job' = [Called(job, "summarize_all") EXCEPT
                             !.pc = "tts", !.summaries = n,
                             !.steps = Append(@, "summarize")]
       \/ job' = Raised(Called(job, "summarize_all"), "APIError")
    /\ UNCHANGED <<call, previous_call>>

\* lines 147-156 with tts_processor.py lines 138-249
JobTts ==
    /\ job.pc = "tts"
    /\ \/ job' = Raised([Called(job, "generate_speech_segments") EXCEPT
                            !.tts = TtsUnavailable],
                        "ValueError")
       \/ \E outs \in [1..(job.summaries + 2) -> TtsOutcomes] :
             LET made == TtsSegments(outs, job.summaries)
                 left == \E k \in DOMAIN outs : TtsLeavesFile(outs[k])
                 j == [Called(job, "generate_speech_segments") EXCEPT
                          !.tts = [available |-> TRUE, outcomes |-> outs]]
             IN  IF made = <<>>
                 THEN job' = Raised([j EXCEPT !.tts_dir_exists = left], "ValueError")
                 ELSE job' = [j EXCEPT !.pc = "assemble", !.temp_tts_dir = "dir",
                                       !.tts_dir_exists = TRUE,
                                       !.audio_segments = made,
                                       !.steps = Append(@, "tts")]
    /\ UNCHANGED <<call, previous_call>>

\* lines 158-171: a fresh output directory, then the call with the default
\* silence_ms; the call starts from its lines 105-108
JobAssemble ==
    /\ job.pc = "assemble"
    /\ job' = [Called(job, "assemble_podcast") EXCEPT
                  !.pc = "assembling", !.output_dir_for_final_audio = "dir"]
    /\ segments' = job.audio_segments
    /\ silence_ms' = DEFAULT_SILENCE_MS
    /\ out_dir_exists' = TRUE
    /\ out_file' = "absent"
    /\ pc' = "start"
    /\ i' = 1
    /\ combined_audio' = <<>>
    /\ chapters_for_metadata' = <<>>
    /\ current_position_ms' = PositionAtEntry(current_position_ms)
    /\ temp_files_to_clean' = <<>>
    /\ metadata_file' = <<>>
    /\ encoder_calls' = 0
    /\ steps' = <<>>
    /\ result' = "pending"
    /\ exit_path' = "running"
    /\ io' = NoIo
    /\ UNCHANGED <<temp_files, previous_call>>

\* lines 173-180
JobAssembled ==
    /\ job.pc = "assembling"
    /\ pc = "done"
    /\ IF result = "ok"
       THEN job' = [job EXCEPT !.pc = "upload", !.steps = Append(@, "assemble")]
       ELSE Raise("RuntimeError")
    /\ UNCHANGED <<call, previous_call>>

\* lines 182-197
JobUpload ==
    /\ job.pc = "upload"
    /\ LET url == IF out_file = "complete" THEN "placeholder" ELSE "None"
       IN  job' = [job EXCEPT !.pc = "notify", !.podcast_url = url,
                              !.uploaded = BlobsAfterUploadStep(@, url)]
    /\ UNCHANGED <<call, previous_call>>

\* lines 199-220; send_email (email_client.py lines 195-220) returns False
\* instead of raising
JobNotify ==
    /\ job.pc = "notify"
    /\ IF job.podcast_url # "None"
       THEN \E delivered \in BOOLEAN :
               /\ delivered => job.target_configured
               /\ job' = [Called(job, "send_email") EXCEPT !.pc = "finally",
                             !.notifications = Append(@,
                                 [kind |-> "success", url |-> job.podcast_url,
                                  delivered |-> delivered])]
       ELSE Raise("RuntimeError")
    /\ UNCHANGED <<call, previous_call>>

\* lines 223-255: both except clauses try one failure notification
JobExcept ==
    /\ job.pc = "except"
    /\ IF CanNotifyFailure(job.gmail_service, job.target_configured)
       THEN \E delivered \in BOOLEAN :
               job' = [Called(job, "send_email") EXCEPT !.pc = "finally",
                          !.notifications = Append(@,
                              [kind |-> "failure", url |-> "None",
                               delivered |-> delivered])]
       ELSE job' = [job EXCEPT !.pc = "finally"]
    /\ UNCHANGED <<call, previous_call>>

\* lines 258-284: rmtree of each directory whose variable was set
JobFinally ==
    /\ job.pc = "finally"
    /\ job' = [job EXCEPT !.pc = "finished",
                  !.tts_dir_exists = TtsDirAfterCleanup(job.temp_tts_dir, @)]
    /\ IF job.output_dir_for_final_audio # "None"
       THEN /\ out_dir_exists' = FALSE
            /\ out_file' = "absent"
       ELSE UNCHANGED <<out_dir_exists, out_file>>
    /\ UNCHANGED <<segments, silence_ms, pc, i, combined_audio,
                   chapters_for_metadata, current_position_ms, temp_files_to_clean,
                   temp_files, metadata_file, encoder_calls, steps, result,
                   exit_path, io, previous_call>>

NextJob ==
    \/ JobGmail
    \/ JobFind
    \/ JobParse
    \/ JobSummarize
    \/ JobTts
    \/ JobAssemble
    \/ Next
    \/ JobAssembled
    \/ JobUpload
    \/ JobNotify
    \/ JobExcept
    \/ JobFinally

SpecJob == InitJob /\ [][NextJob]_vars

----------------------------------------------------------------------------
(* Vocabulary of the properties *)

Outcome(k) == LoadOutcome(segments[k])

\* indices of the segments among 1..n that loaded, in input order
RECURSIVE LoadedUpTo(_)
LoadedUpTo(n) ==
    IF n = 0 THEN <<>>
    ELSE IF Outcome(n) = "loaded" THEN Append(LoadedUpTo(n - 1), n)
    ELSE LoadedUpTo(n - 1)

\* segments the merge loop has already been through
Processed == IF pc = "start" THEN 0 ELSE i - 1

AudioClips(clips) == SelectSeq(clips, LAMBDA c : c.kind = "audio")

RECURSIVE SumLen(_)
SumLen(n) == IF n = 0 THEN 0 ELSE segments[n].len + SumLen(n - 1)

AllSegmentsFail ==
    /\ segments # <<>>
    /\ \A k \in DOMAIN segments : Outcome(k) # "loaded"

SomeSegmentLoads == \E k \in DOMAIN segments : Outcome(k) = "loaded"

Returned == pc = "done"

Succeeded == pc = "done" /\ result = "ok"

OutputWrittenByCall == out_file \in {"partial", "complete"}

----------------------------------------------------------------------------
(* C1: if every segment of a non-empty list fails to load, the call fails  *)
(* as empty: export and transcoder are never reached, no output file is   *)
(* created and nothing is left in the output directory.                    *)
C1_AllFailNeverExports ==
    AllSegmentsFail =>
        /\ pc \notin {"export", "metadata", "transcode", "cleanup"}
        /\ encoder_calls = 0
        /\ temp_files = {}
        /\ ~OutputWrittenByCall
        /\ (Returned => result = "None" /\ exit_path = "empty_audio")

(* C2: the chapter list is as long as the number of segments loaded and    *)
(* appended so far, and never longer than the input list.                  *)
C2_ChapterCountEqualsLoaded ==
    /\ Len(chapters_for_metadata) = Len(LoadedUpTo(Processed))
    /\ Len(chapters_for_metadata) = Len(AudioClips(combined_audio))
    /\ Len(chapters_for_metadata) <= Len(segments)

C2_Witness ==
    /\ Succeeded
    /\ Len(segments) = 3
    /\ Len(chapters_for_metadata) = 2
    /\ Outcome(2) = "decode_failed"

(* C3: each chapter's end_ms - start_ms is the decoded length of the       *)
(* segment it was recorded for, whatever that segment's declared duration. *)
C3_ChapterSpanIsActualLength ==
    \A j \in DOMAIN chapters_for_metadata :
        /\ j <= Len(LoadedUpTo(Processed))
        /\ chapters_for_metadata[j].end_ms - chapters_for_metadata[j].start_ms
              = segments[LoadedUpTo(Processed)[j]].len

C3_Witness ==
    /\ Succeeded
    /\ \E j \in DOMAIN chapters_for_metadata :
          LET seg == segments[LoadedUpTo(Processed)[j]]
          IN  /\ seg.duration_is_int
              /\ seg.duration_ms = 3000
              /\ seg.len = 5000
              /\ chapters_for_metadata[j].end_ms
                    - chapters_for_metadata[j].start_ms = 5000

(* C4 as stated: adjacent chapters are always exactly silence_ms apart,    *)
(* also when failed segments lie between their segments in the input.      *)
C4_GapAlwaysSilence ==
    \A j \in DOMAIN chapters_for_metadata :
        j < Len(chapters_for_metadata) =>
            chapters_for_metadata[j + 1].start_ms - chapters_for_metadata[j].end_ms
               = silence_ms

DecodeFailuresBetween(a, b) ==
    Cardinality({ k \in (a + 1)..(b - 1) : Outcome(k) = "decode_failed" })

(* C4 amended: the gap between adjacent chapters is silence_ms times one   *)
(* plus the number of segments between them that failed at the decode      *)
(* step; it is silence_ms exactly when no such segment lies between them.  *)
C4_GapCountsDecodeFailures ==
    \A j \in DOMAIN chapters_for_metadata :
        j < Len(chapters_for_metadata) =>
            /\ j + 1 <= Len(LoadedUpTo(Processed))
            /\ chapters_for_metadata[j + 1].start_ms - chapters_for_metadata[j].end_ms
                  = silence_ms * (1 + DecodeFailuresBetween(LoadedUpTo(Processed)[j],
                                                            LoadedUpTo(Processed)[j + 1]))

C4_Witness ==
    /\ Succeeded
    /\ silence_ms = 750
    /\ Len(segments) = 3
    /\ Outcome(2) = "decode_failed"
    /\ Len(chapters_for_metadata) = 2
    /\ chapters_for_metadata[2].start_ms - chapters_for_metadata[1].end_ms = 1500

(* C5: every chapter returned to the caller has                            *)
(* 0 <= start_ms < end_ms <= timeline length, so the metadata encoder      *)
(* drops none of them.                                                     *)
C5_ChaptersWellFormed ==
    Succeeded =>
        /\ \A j \in DOMAIN chapters_for_metadata :
              /\ 0 <= chapters_for_metadata[j].start_ms
              /\ chapters_for_metadata[j].start_ms < chapters_for_metadata[j].end_ms
              /\ chapters_for_metadata[j].end_ms <= TimelineLen
        /\ Len(metadata_file) = Len(chapters_for_metadata)

(* C6: when every segment loads, chapter k starts at the sum of the        *)
(* lengths of the segments before it plus one silence_ms per earlier       *)
(* segment, and ends its own length later.                                 *)
C6_CumulativeOffsets ==
    (\A k \in 1..Processed : Outcome(k) = "loaded") =>
        /\ Len(chapters_for_metadata) = Processed
        /\ \A k \in 1..Processed :
              /\ chapters_for_metadata[k].start_ms
                    = SumLen(k - 1) + (k - 1) * silence_ms
              /\ chapters_for_metadata[k].end_ms
                    = chapters_for_metadata[k].start_ms + segments[k].len

C6_Witness ==
    /\ Succeeded
    /\ silence_ms = 750
    /\ Len(segments) = 3
    /\ segments[1].len = 5000 /\ segments[2].len = 3000 /\ segments[3].len = 4000
    /\ Len(chapters_for_metadata) = 3
    /\ chapters_for_metadata[1].start_ms = 0 /\ chapters_for_metadata[1].end_ms = 5000
    /\ chapters_for_metadata[2].start_ms = 5750 /\ chapters_for_metadata[2].end_ms = 8750
    /\ chapters_for_metadata[3].start_ms = 9500 /\ chapters_for_metadata[3].end_ms = 13500

FailedIteration ==
    /\ pc = "merge"
    /\ i <= Len(segments)
    /\ Outcome(i) # "loaded"

(* C7: a loop iteration for a segment that fails to load records no        *)
(* chapter, appends no segment audio, moves the cursor forward by at most  *)
(* silence_ms and leaves the recorded chapters as they were; two segments  *)
(* of which only the second fails give one chapter from 0 to the length of *)
(* the first.                                                             *)
C7_FailedSegmentLeavesNoTrace ==
    /\ [][FailedIteration =>
            /\ chapters_for_metadata' = chapters_for_metadata
            /\ AudioClips(combined_audio') = AudioClips(combined_audio)
            /\ current_position_ms' - current_position_ms >= 0
            /\ current_position_ms' - current_position_ms <= silence_ms]_vars
    /\ [](( /\ Len(segments) = 2
            /\ Outcome(1) = "loaded"
            /\ Outcome(2) # "loaded"
            /\ pc \notin {"start", "merge"} )
          => chapters_for_metadata = <<Chapter(segments[1].source, 0, segments[1].len)>>)

C7_Witness ==
    /\ Succeeded
    /\ Len(segments) = 2
    /\ Outcome(1) = "loaded"
    /\ Outcome(2) = "decode_failed"
    /\ silence_ms = 750
    /\ current_position_ms = segments[1].len + 750
    /\ chapters_for_metadata = <<Chapter(segments[1].source, 0, 5000)>>

(* C8: if at least one segment loads, the call does not stop at the empty  *)
(* check: it goes on to export, metadata encoding and transcoding.         *)
C8_OneLoadedSegmentSuffices ==
    (Returned /\ SomeSegmentLoads) =>
        /\ exit_path # "empty_audio"
        /\ Len(steps) >= 2
        /\ steps[2] = "export"

C12_ZeroExitSucceeds ==
    io.encoder \in {"zero", "zero_stderr"} =>
        /\ pc \in {"cleanup", "done"}
        /\ out_file = "complete"
        /\ Returned => (result = "ok" /\ exit_path = "success")

C12_Witness ==
    /\ io.encoder = "zero_stderr"
    /\ Succeeded
    /\ out_file = "complete"
    /\ chapters_for_metadata # <<>>

(* C13: when the metadata file cannot be written the call fails and the    *)
(* encoder is never invoked in that call.                                  *)
C13_MetadataFailureSkipsEncoder ==
    io.metadata \in {"mkstemp_fails", "write_fails"} =>
        /\ Returned
        /\ result = "None"
        /\ exit_path = "metadata_failed"
        /\ encoder_calls = 0
        /\ io.encoder = "none"
        /\ "transcode" \notin Range(steps)

C13_Witness ==
    /\ io.metadata = "write_fails"
    /\ Returned
    /\ result = "None"
    /\ encoder_calls = 0
    /\ steps = <<"merge", "export", "metadata">>

FailureKinds ==
    {"empty_input", "empty_audio", "export_failed", "metadata_failed",
     "tool_missing", "transcode_failed"}

(* C14 as stated: two calls that fail in different ways return different   *)
(* outcomes to the caller.                                                 *)
C14_FailureKindsDistinct ==
    ( /\ Returned
      /\ previous_call.made
      /\ exit_path \in FailureKinds
      /\ previous_call.exit_path \in FailureKinds
      /\ exit_path # previous_call.exit_path )
    => result # previous_call.result

(* C14 amended: the returned outcome tells success from failure only;      *)
(* every failing exit returns the same None, whatever its kind.            *)
C14_EveryFailureReturnsNone ==
    /\ Returned => ( \/ exit_path = "success" /\ result = "ok"
                     \/ exit_path \in FailureKinds /\ result = "None" )
    /\ ( /\ Returned
         /\ previous_call.made
         /\ exit_path \in FailureKinds
         /\ previous_call.exit_path \in FailureKinds )
       => result = previous_call.result

C14_Witness ==
    /\ Returned
    /\ previous_call.made
    /\ previous_call.exit_path = "tool_missing"
    /\ exit_path = "empty_audio"
    /\ result = "None"
    /\ previous_call.result = "None"

RECURSIVE IsSubsequence(_, _)
IsSubsequence(a, b) ==
    IF a = <<>> THEN TRUE
    ELSE IF b = <<>> THEN FALSE
    ELSE IF Head(a) = Head(b) THEN IsSubsequence(Tail(a), Tail(b))
    ELSE IsSubsequence(a, Tail(b))

ChapterTitles == [j \in DOMAIN chapters_for_metadata |-> chapters_for_metadata[j].title]

SegmentLabels == [k \in DOMAIN segments |-> segments[k].source]

(* C16: the chapter titles are a subsequence of the input labels (input    *)
(* order, skipped segments absent), and with silence_ms >= 0 no chapter    *)
(* starts before the previous one ends.                                    *)
C16_ChaptersInInputOrder ==
    /\ IsSubsequence(ChapterTitles, SegmentLabels)
    /\ silence_ms >= 0 =>
          \A j \in DOMAIN chapters_for_metadata :
              j < Len(chapters_for_metadata) =>
                  chapters_for_metadata[j].end_ms <= chapters_for_metadata[j + 1].start_ms

C16_Witness ==
    /\ Succeeded
    /\ Len(segments) = 3
    /\ Outcome(2) = "missing"
    /\ ChapterTitles = <<SourceAt(1), SourceAt(3)>>
    /\ chapters_for_metadata[1].end_ms < chapters_for_metadata[2].start_ms

\* positions among 1..n of the chapters with end_ms > start_ms, in order
RECURSIVE EndsAfterStartUpTo(_)
EndsAfterStartUpTo(n) ==
    IF n = 0 THEN <<>>
    ELSE IF chapters_for_metadata[n].end_ms > chapters_for_metadata[n].start_ms
         THEN Append(EndsAfterStartUpTo(n - 1), n)
         ELSE EndsAfterStartUpTo(n - 1)

WrittenFrom == EndsAfterStartUpTo(Len(chapters_for_metadata))

MetadataWritten == pc = "encoded" /\ io.metadata = "ok"

(* C17: the metadata file holds one [CHAPTER] block per input chapter with *)
(* end_ms > start_ms, in input order, with that chapter's START and END in *)
(* a 1/1000 timebase; the other chapters are left out and the encoder      *)
(* still returns True.                                                     *)
C17_OneBlockPerValidChapter ==
    MetadataWritten =>
        /\ result = "True"
        /\ Len(metadata_file) = Len(WrittenFrom)
        /\ \A r \in DOMAIN metadata_file :
              /\ metadata_file[r].TIMEBASE = <<1, 1000>>
              /\ metadata_file[r].START = chapters_for_metadata[WrittenFrom[r]].start_ms
              /\ metadata_file[r].END = chapters_for_metadata[WrittenFrom[r]].end_ms

C17_Witness ==
    /\ MetadataWritten
    /\ result = "True"
    /\ Len(chapters_for_metadata) = 2
    /\ chapters_for_metadata[1].end_ms = chapters_for_metadata[1].start_ms
    /\ Len(metadata_file) = 1
    /\ metadata_file[1].START = 1000
    /\ metadata_file[1].END = 2000

(* C18 as stated: no written title contains '=', ';', '#', a path          *)
(* separator or a newline.                                                 *)
C18_NoSignificantCharacter ==
    \A r \in DOMAIN metadata_file :
        \A k \in DOMAIN metadata_file[r].title :
            metadata_file[r].title[k] \notin {"=", ";", "#", "/", "\\", "\n"}

EscapedCharacters == {"=", ";", "#", "\\", "\n"}

(* C18 amended: no written title contains '=', ';', '#', a backslash or a  *)
(* line feed: each is replaced by '-', ',' or a space, none of which is    *)
(* one of them; every other character, '/' and carriage return included,   *)
(* is written unchanged.                                                   *)
C18_EscapedCharactersReplaced ==
    MetadataWritten =>
        \A r \in DOMAIN metadata_file :
            LET given == chapters_for_metadata[WrittenFrom[r]].title
                written == metadata_file[r].title
            IN  /\ Len(written) = Len(given)
                /\ \A k \in DOMAIN written :
                      /\ written[k] \notin EscapedCharacters
                      /\ given[k] \in EscapedCharacters => written[k] \in {"-", ",", " "}
                      /\ given[k] \notin EscapedCharacters => written[k] = given[k]

C18_Witness ==
    /\ MetadataWritten
    /\ Len(metadata_file) = 2
    /\ chapters_for_metadata[1].title = <<"#", "\\", "\n">>
    /\ metadata_file[1].title = <<"-", "-", " ">>
    /\ chapters_for_metadata[2].title = <<"x", "/", "\r">>
    /\ metadata_file[2].title = <<"x", "/", "\r">>

----------------------------------------------------------------------------
(* Silence and the load outcome *)

\* the merge loop is about to run the iteration of a segment after the first
LaterIteration ==
    /\ pc = "merge"
    /\ i > 1
    /\ i <= Len(segments)

\* the iteration puts the silence clip right after what the timeline held
SilenceAppended ==
    /\ Len(combined_audio') > Len(combined_audio)
    /\ SubSeq(combined_audio', 1, Len(combined_audio)) = combined_audio
    /\ combined_audio'[Len(combined_audio) + 1]
          = Clip("silence", i, SilenceClipMs(silence_ms))

LoadedMs(k) == IF Outcome(k) = "loaded" THEN segments[k].len ELSE 0

\* the cursor moves by silence_ms, and by the segment's length if it loaded
CursorPastSilence ==
    current_position_ms' = current_position_ms + silence_ms + LoadedMs(i)

(* C20 as stated: for every segment after the first the iteration appends  *)
(* silence_ms of silence and advances the cursor by silence_ms whatever the *)
(* segment's load outcome: missing file, failed re-probe or decode error.   *)
C20_SilenceBeforeAnyOutcome ==
    [][LaterIteration => (SilenceAppended /\ CursorPastSilence)]_vars

(* C20 amended: for a segment after the first whose file exists and whose   *)
(* duration is valid or re-probed, the silence is appended and the cursor   *)
(* advanced before the decode, so it stays when the decode fails; for a     *)
(* segment skipped for a missing file or a failed re-probe the iteration    *)
(* leaves timeline and cursor as they were.                                 *)
C20_SilenceOnceChecksPass ==
    [][LaterIteration =>
          IF Outcome(i) \in {"decode_failed", "loaded"}
          THEN SilenceAppended /\ CursorPastSilence
          ELSE /\ combined_audio' = combined_audio
               /\ current_position_ms' = current_position_ms]_vars

C20_Witness ==
    /\ pc = "merge"
    /\ i > 2
    /\ silence_ms = DEFAULT_SILENCE_MS
    /\ Outcome(i - 1) = "decode_failed"
    /\ combined_audio # <<>>
    /\ combined_audio[Len(combined_audio)] = Clip("silence", i - 1, silence_ms)
    /\ current_position_ms = SumMs(combined_audio)

----------------------------------------------------------------------------
(* The job around the assembly *)

PipelineOrder == <<"fetch", "summarize", "tts", "assemble", "upload">>

SuccessNotifications ==
    { k \in DOMAIN job.notifications :
          /\ job.notifications[k].kind = "success"
          /\ job.notifications[k].delivered }

\* C19: a run that sends the success notification has completed email fetch,
\* summarization, speech synthesis, assembly and the upload of the final
\* file, in this order, and the link in the notification names an uploaded
\* file.
C19_SuccessMailFollowsUpload ==
    \A k \in SuccessNotifications :
        /\ job.steps = PipelineOrder
        /\ job.notifications[k].url \in job.uploaded

----------------------------------------------------------------------------
(* The position cursor *)

ChapterJustAdded == Len(chapters_for_metadata') = Len(chapters_for_metadata) + 1

\* the chapter added by this step lies on the cursor: it ends where the
\* cursor now is and starts where the cursor was when the audio was appended
BoundariesFromCursor ==
    LET chap == chapters_for_metadata'[Len(chapters_for_metadata')]
        clip == combined_audio'[Len(combined_audio')]
    IN  /\ clip.kind = "audio"
        /\ chap.end_ms = current_position_ms'
        /\ chap.start_ms = current_position_ms' - clip.ms

(* C21: for non-negative silence_ms the position cursor is 0 when the call *)
(* starts, never decreases, equals after every step the total length of    *)
(* the audio and silence appended to the timeline, and a chapter added by  *)
(* a step takes both of its boundaries from the cursor.                    *)
C21_CursorIsTimelineLength ==
    [][/\ pc = "start" => current_position_ms = 0
       /\ current_position_ms' >= current_position_ms
       /\ current_position_ms' = SumMs(combined_audio')
       /\ ChapterJustAdded => BoundariesFromCursor]_vars

C21_Witness ==
    /\ pc = "merge"
    /\ silence_ms = DEFAULT_SILENCE_MS
    /\ Len(chapters_for_metadata) = 2
    /\ Len(combined_audio) = 3
    /\ current_position_ms = 3000 + DEFAULT_SILENCE_MS + 5000
    /\ current_position_ms = SumMs(combined_audio)

----------------------------------------------------------------------------
(* Silence and the first clip *)

(* C22: silence is never put before the first clip: the timeline does not  *)
(* begin with a silence clip, and when the returned chapter list is not    *)
(* empty its first chapter starts at 0, also when leading segments of the  *)
(* input were skipped.                                                     *)
C22_NoSilenceBeforeFirstClip ==
    Succeeded =>
        /\ combined_audio[1].kind = "silence" => combined_audio[1].ms = 0
        /\ chapters_for_metadata # <<>> => chapters_for_metadata[1].start_ms = 0

----------------------------------------------------------------------------
(* The declared duration *)

BothLoopsEnded ==
    /\ previous_call.made
    /\ pc \in {"export", "done"}

(* C23: two runs of the merge loop over lists that differ only in the      *)
(* declared duration_ms of segments whose file exists and decodes end with *)
(* the same chapter list and the same timeline length.                     *)
C23_DeclaredDurationIrrelevant ==
    (BothLoopsEnded /\ DiffersOnlyInDeclared(previous_call.other, segments)) =>
        /\ chapters_for_metadata = previous_call.chapters
        /\ TimelineLen = previous_call.timeline_ms

----------------------------------------------------------------------------
(* Order of the steps of one call *)

StepOrder == <<"merge", "export", "metadata", "transcode", "cleanup">>

\* the steps entered so far are the first ones of StepOrder, each once
StepsInOrder ==
    /\ Len(steps) <= Len(StepOrder)
    /\ steps = SubSeq(StepOrder, 1, Len(steps))

\* ffmpeg is run at most once, and only with both temporary files written
EncoderOnceAfterFiles ==
    /\ encoder_calls <= 1
    /\ encoder_calls = 1 => (io.export = "ok" /\ io.metadata = "ok")

TempFileDeleted == \E f \in temp_files : f \notin temp_files'

(* C24 as stated: the steps run in the order merge, export, metadata,      *)
(* transcode, cleanup; the encoder is invoked at most once and only after  *)
(* both temporary files were written; a temporary file is deleted only     *)
(* after the encoder has returned or failed to start.                      *)
C24_DeletionOnlyAfterEncoder ==
    [][/\ StepsInOrder'
       /\ EncoderOnceAfterFiles'
       /\ TempFileDeleted => io'.encoder # "none"]_vars

(* C24 amended: as above, except that a temporary file is deleted either   *)
(* after the encoder has returned or failed to start, or by the handler of *)
(* a failed export or metadata step, and then the encoder is not invoked.  *)
C24_DeletionAfterEncoderOrFailedStep ==
    [][/\ StepsInOrder'
       /\ EncoderOnceAfterFiles'
       /\ TempFileDeleted =>
             \/ io'.encoder # "none"
             \/ /\ encoder_calls' = 0
                /\ pc' = "done"
                /\ \/ io'.export \in {"mkstemp_fails", "export_fails"}
                   \/ io'.metadata \in {"mkstemp_fails", "write_fails"}]_vars

C24_Witness ==
    /\ steps = StepOrder
    /\ encoder_calls = 1
    /\ io.encoder = "zero"
    /\ temp_files_to_clean = <<"concat", "metadata">>
    /\ temp_files = {}
    /\ result = "ok"

----------------------------------------------------------------------------
(* Silence before a failed segment *)

(* C25: for a segment after the first, a skip for a missing file or a      *)
(* failed duration re-probe changes neither timeline nor cursor, whereas a *)
(* decode failure at the append step leaves the timeline longer by the     *)
(* silence clip and the cursor advanced by silence_ms, with no chapter.    *)
C25_SilenceDependsOnFailure ==
    [][LaterIteration =>
          /\ Outcome(i) \in {"missing", "probe_failed"} =>
                /\ SumMs(combined_audio') = SumMs(combined_audio)
                /\ Len(combined_audio') = Len(combined_audio)
                /\ current_position_ms' = current_position_ms
          /\ Outcome(i) = "decode_failed" =>
                /\ SumMs(combined_audio') = SumMs(combined_audio) + silence_ms
                /\ Len(combined_audio') = Len(combined_audio) + 1
                /\ current_position_ms' = current_position_ms + silence_ms
                /\ chapters_for_metadata' = chapters_for_metadata]_vars

C25_Witness ==
    /\ pc = "merge"
    /\ i = 4
    /\ silence_ms = DEFAULT_SILENCE_MS
    /\ Outcome(1) = "loaded"
    /\ Outcome(2) \in {"missing", "probe_failed"}
    /\ Outcome(3) = "decode_failed"
    /\ Len(combined_audio) = 2
    /\ current_position_ms = segments[1].len + silence_ms

----------------------------------------------------------------------------
(* The empty segment list *)

(* C26: called with an empty segment list the function returns failure in  *)
(* its first step and leaves the output directory, the output file, the    *)
(* temporary files and the encoder untouched.                              *)
C26_EmptyInputChangesNothing ==
    [][(pc = "start" /\ segments = <<>>) =>
          /\ pc' = "done"
          /\ result' = "None"
          /\ out_dir_exists' = out_dir_exists
          /\ out_file' = out_file
          /\ temp_files' = temp_files
          /\ temp_files_to_clean' = <<>>
          /\ encoder_calls' = 0]_vars

C26_Witness ==
    /\ segments = <<>>
    /\ pc = "done"
    /\ exit_path = "empty_input"
    /\ ~out_dir_exists
    /\ temp_files = {}
    /\ encoder_calls = 0

----------------------------------------------------------------------------
(* Temporary directories, notifications and early exits of the job *)

JobReturned == job.pc = "finished"

HasCalled(name) == name \in Range(job.called)

(* C27: after the job has returned, on any path, neither the TTS segment   *)
(* directory nor the final-audio directory created during the run exists.  *)
C27_NoTemporaryDirectoryRemains ==
    JobReturned =>
        /\ ~job.tts_dir_exists
        /\ ~out_dir_exists

(* C28: a run attempts at most one notification email; a success           *)
(* notification only after assembly succeeded and a URL was obtained, a    *)
(* failure notification only after a step raised with the Gmail service    *)
(* initialised; never both.                                                *)
C28_AtMostOneNotification ==
    /\ Len(job.notifications) <= 1
    /\ \A k \in DOMAIN job.notifications :
          LET n == job.notifications[k]
          IN  /\ n.kind = "success" =>
                    /\ result = "ok"
                    /\ job.podcast_url # "None"
                    /\ job.raised = "none"
              /\ n.kind = "failure" =>
                    /\ job.raised # "none"
                    /\ job.gmail_service

C28_Witness ==
    /\ JobReturned
    /\ job.raised = "RuntimeError"
    /\ result = "None"
    /\ Len(job.notifications) = 1
    /\ job.notifications[1].kind = "failure"

\* the search or the parsing has ended, without an exception, with nothing
\* to summarize
NoContentFound ==
    /\ HasCalled("find_recent_emails")
    /\ job.pc # "parse"
    /\ job.raised = "none"
    /\ job.email_contents = 0

(* C29: when no recent email is found, or none of the found emails yields  *)
(* usable content, the run goes to its cleanup block without calling the   *)
(* summarizer, the speech synthesizer or the assembler and without sending *)
(* any email.                                                              *)
C29_NoContentExitsQuietly ==
    NoContentFound =>
        /\ job.pc \in {"finally", "finished"}
        /\ ~HasCalled("summarize_all")
        /\ ~HasCalled("generate_speech_segments")
        /\ ~HasCalled("assemble_podcast")
        /\ ~HasCalled("send_email")
        /\ job.notifications = <<>>
        /\ pc = "idle"

C29_Witness ==
    /\ JobReturned
    /\ job.messages = 2
    /\ job.email_contents = 0
    /\ job.raised = "none"
    /\ job.called = <<"_get_gmail_service", "find_recent_emails", "get_email_details">>
    /\ job.notifications = <<>>

\* the attempts of generate_speech_segments that returned a (path, duration)
ProducedAttempts ==
    { k \in DOMAIN job.tts.outcomes : job.tts.outcomes[k] \in {"silent", "spoken"} }

\* the attempt behind the j-th returned segment, if attempts are kept in order
AttemptOf(j) ==
    CHOOSE k \in ProducedAttempts :
        Cardinality({ m \in ProducedAttempts : m <= k }) = j

(* C30: generate_speech_segments returns one entry per attempt that        *)
(* succeeded, in the order Intro, summaries in input order, Outro, each    *)
(* with the duration measured from its file; it returns (None, []) exactly *)
(* when nothing was produced, and otherwise a directory and a non-empty    *)
(* list.                                                                   *)
C30_SegmentsInOrderWithoutFailures ==
    HasCalled("generate_speech_segments") =>
        /\ Len(job.audio_segments) = Cardinality(ProducedAttempts)
        /\ \A j \in DOMAIN job.audio_segments :
              LET seg == job.audio_segments[j]
              IN  /\ seg.source = TtsSource(AttemptOf(j), job.summaries)
                  /\ seg.duration_is_int
                  /\ seg.duration_ms = seg.len
        /\ (job.temp_tts_dir = "None") <=> (ProducedAttempts = {})
        /\ (job.temp_tts_dir = "None") <=> (job.audio_segments = <<>>)

C30_Witness ==
    /\ job.pc = "assemble"
    /\ job.summaries = 2
    /\ job.tts.outcomes = <<"api_failed", "spoken", "probe_failed", "silent">>
    /\ Len(job.audio_segments) = 2
    /\ job.audio_segments[1].source = <<"s", "1">>
    /\ job.audio_segments[2].source = <<"O", "u", "t", "r", "o">>
    /\ job.temp_tts_dir = "dir"

====
